---- MODULE Spec2Model ----
(***************************************************************************)
(* A model of the ray-tracing kernel of rust-raytracer: the vector and     *)
(* colour algebra of geometry.rs, the intersection, shading and recursive  *)
(* trace_ray of raytracer.rs, and the per-pixel loop of Scene::draw in     *)
(* main.rs.                                                                *)
(*                                                                         *)
(* f64 values are modelled as extended rationals: a finite value n/d, or   *)
(* +infinity, -infinity, NaN, with the IEEE rules for the special values.  *)
(* Like f64, the format is finite in precision: a result is kept exactly   *)
(* when its reduced denominator is at most MaxDen, and is otherwise        *)
(* rounded to the nearest multiple of 1/Precision.  Signed zeros are not   *)
(* modelled (a zero divisor counts as +0).                                 *)
(*                                                                         *)
(* A value an operation uses more than once is passed on as a parameter of *)
(* a helper operator instead of being named in a LET, so that each         *)
(* sub-expression occurs once in the expanded definition.                  *)
(***************************************************************************)
EXTENDS Integers, Sequences, FiniteSets, TLC

\* ------------------------------------------------------------ bounds
\* Largest denominator a finite value keeps exactly.
MaxDen == 1000
\* Grid (multiples of 1/Precision) a value that cannot be kept is rounded to.
Precision == 128

\* ------------------------------------------------------------ f64
Abs(i) == IF i < 0 THEN -i ELSE i

Sign(i) == IF i < 0 THEN -1 ELSE IF i > 0 THEN 1 ELSE 0

RECURSIVE GCD(_, _)
GCD(a, b) == IF b = 0 THEN a ELSE GCD(b, a % b)

NaN == [k |-> "nan", n |-> 0, d |-> 1]

INFINITY == [k |-> "inf", n |-> 0, d |-> 1]

NEG_INFINITY == [k |-> "ninf", n |-> 0, d |-> 1]

Fin(n, d) == [k |-> "fin", n |-> n, d |-> d]

\* n/g over d/g.
Reduced(n, d, g) == Fin(n \div g, d \div g)

\* The multiple of 1/Precision nearest to n/d.
Rounded(n, d) ==
    (n \div d) * Precision + (((n % d) * Precision + (d \div 2)) \div d)

\* A value in lowest terms n/d: kept when d <= MaxDen, rounded otherwise.
Kept(x) ==
    IF x.d <= MaxDen THEN x
    ELSE Reduced(Rounded(x.n, x.d), Precision, GCD(Abs(Rounded(x.n, x.d)), Precision))

\* The finite value n/d (d > 0).
Mk(n, d) == Kept(Reduced(n, d, GCD(Abs(n), d)))

\* An integer, and a ratio of integers, as f64 literals.
F(i) == Fin(i, 1)

Q(n, d) == Mk(n, d)

IsNaN(x) == x.k = "nan"

IsFinite(x) == x.k = "fin"

\* Sign of a non-NaN value: -1, 0, 1.
Sgn(x) == IF x.k = "inf" THEN 1 ELSE IF x.k = "ninf" THEN -1 ELSE Sign(x.n)

Signed(s) == IF s > 0 THEN INFINITY ELSE NEG_INFINITY

Neg(x) ==
    CASE x.k = "nan"  -> NaN
      [] x.k = "inf"  -> NEG_INFINITY
      [] x.k = "ninf" -> INFINITY
      [] OTHER        -> Fin(-x.n, x.d)

Add(x, y) ==
    CASE x.k = "nan" \/ y.k = "nan" -> NaN
      [] x.k = "fin" /\ y.k = "fin" -> Mk(x.n * y.d + y.n * x.d, x.d * y.d)
      [] x.k = "fin"                -> y
      [] y.k = "fin"                -> x
      [] x.k = y.k                  -> x
      [] OTHER                      -> NaN

Sub(x, y) == Add(x, Neg(y))

\* (xn/xd) * (yn/yd), with g1 = gcd(xn, yd) and g2 = gcd(yn, xd) cancelled first.
MulFin(xn, xd, yn, yd, g1, g2) ==
    Mk((xn \div g1) * (yn \div g2), (xd \div g2) * (yd \div g1))

Mul(x, y) ==
    CASE x.k = "nan" \/ y.k = "nan" -> NaN
      [] x.k = "fin" /\ y.k = "fin" ->
            MulFin(x.n, x.d, y.n, y.d, GCD(Abs(x.n), y.d), GCD(Abs(y.n), x.d))
      [] Sgn(x) = 0 \/ Sgn(y) = 0   -> NaN
      [] OTHER                      -> Signed(Sgn(x) * Sgn(y))

Div(x, y) ==
    CASE x.k = "nan" \/ y.k = "nan" -> NaN
      [] x.k # "fin" /\ y.k # "fin" -> NaN
      [] y.k # "fin"                -> F(0)
      [] x.k # "fin"                -> Signed(Sgn(x) * (IF y.n < 0 THEN -1 ELSE 1))
      [] y.n = 0 /\ x.n = 0         -> NaN
      [] y.n = 0                    -> Signed(Sgn(x))
      [] OTHER                      ->
            MulFin(Sign(y.n) * x.n, x.d, y.d, Abs(y.n),
                   GCD(Abs(x.n), Abs(y.n)), GCD(y.d, x.d))

\* Comparisons: every comparison with NaN is false.
Lt(x, y) ==
    /\ x.k # "nan" /\ y.k # "nan"
    /\ CASE x.k = "fin" /\ y.k = "fin" -> x.n * y.d < y.n * x.d
         [] x.k = "ninf"               -> y.k # "ninf"
         [] y.k = "inf"                -> x.k # "inf"
         [] OTHER                      -> FALSE

Le(x, y) == x.k # "nan" /\ y.k # "nan" /\ ~Lt(y, x)

Gt(x, y) == Lt(y, x)

Ge(x, y) == Le(y, x)

\* f64::min: the smaller value; the other one when one of them is NaN.
Min(x, y) == IF IsNaN(x) THEN y ELSE IF IsNaN(y) THEN x ELSE IF Lt(y, x) THEN y ELSE x

\* f64::total_cmp's order restricted to "less": -inf < finite < +inf < NaN.
TotalLt(x, y) == IF IsNaN(x) THEN FALSE ELSE IF IsNaN(y) THEN TRUE ELSE Lt(x, y)

\* Largest r in lo..hi with r*r <= m (hi*hi must not overflow).
RECURSIVE ISqrtIn(_, _, _)
ISqrtIn(m, lo, hi) ==
    IF lo >= hi THEN lo
    ELSE IF ((lo + hi + 1) \div 2) * ((lo + hi + 1) \div 2) <= m
         THEN ISqrtIn(m, (lo + hi + 1) \div 2, hi)
         ELSE ISqrtIn(m, lo, ((lo + hi + 1) \div 2) - 1)

ISqrt(m) == ISqrtIn(m, 0, 46340)

IsSquare(m) == m >= 0 /\ ISqrt(m) * ISqrt(m) = m

\* sqrt(n/d) with rn = isqrt(n) and rd = isqrt(d): exact on a ratio of
\* squares, else rounded down to a multiple of 1/Precision.
SqrtFin(n, d, rn, rd) ==
    IF rn * rn = n /\ rd * rd = d
    THEN Mk(rn, rd)
    ELSE Mk(ISqrt((n \div d) * Precision * Precision
                  + (((n % d) * Precision * Precision) \div d)), Precision)

\* f64::sqrt: NaN below zero.
Sqrt(x) ==
    CASE x.k = "nan" \/ x.k = "ninf" -> NaN
      [] x.k = "inf"                 -> INFINITY
      [] x.n < 0                     -> NaN
      [] OTHER                       -> SqrtFin(x.n, x.d, ISqrt(x.n), ISqrt(x.d))

\* f64::powf for the exponents the model draws: natural numbers.
RECURSIVE Powf(_, _)
Powf(x, s) == IF s = 0 THEN F(1) ELSE Mul(x, Powf(x, s - 1))

\* ------------------------------------------------------------ Vec3
Vec3(x, y, z) == [x |-> x, y |-> y, z |-> z]

\* A vector of integer components.
V(x, y, z) == Vec3(F(x), F(y), F(z))

ZERO == V(0, 0, 0)

VAdd(a, b) == Vec3(Add(a.x, b.x), Add(a.y, b.y), Add(a.z, b.z))

VNeg(a) == Vec3(Neg(a.x), Neg(a.y), Neg(a.z))

VSub(a, b) == VAdd(a, VNeg(b))

\* Vec3 * f64, and f64 * Vec3 which forwards to it.
VMul(a, f) == Vec3(Mul(f, a.x), Mul(f, a.y), Mul(f, a.z))

SMul(f, a) == VMul(a, f)

VDiv(a, f) == Vec3(Div(a.x, f), Div(a.y, f), Div(a.z, f))

dot(a, b) == Add(Add(Mul(a.x, b.x), Mul(a.y, b.y)), Mul(a.z, b.z))

length(a) == Sqrt(dot(a, a))

normalize(a) == VDiv(a, length(a))

cross(a, b) ==
    Vec3(Sub(Mul(a.y, b.z), Mul(a.z, b.y)),
         Neg(Sub(Mul(a.x, b.z), Mul(a.z, b.x))),
         Sub(Mul(a.x, b.y), Mul(a.y, b.z)))

\* ------------------------------------------------------------ Mat3x3
Mat3x3(col1, col2, col3) == [col1 |-> col1, col2 |-> col2, col3 |-> col3]

IDENTITY == Mat3x3(V(1, 0, 0), V(0, 1, 0), V(0, 0, 1))

\* The matrix rotation_mat builds from dir and its two axes.
RotationOf(dir, x_axis, y_axis) ==
    Mat3x3(Vec3(x_axis.x, y_axis.x, dir.x),
           Vec3(x_axis.y, y_axis.y, dir.y),
           Vec3(x_axis.z, y_axis.z, dir.z))

\* rotation_mat once x_axis is known.
RotationFrom(dir, x_axis) ==
    IF IsNaN(x_axis.x)
    THEN IDENTITY
    ELSE RotationOf(dir, x_axis, normalize(cross(dir, x_axis)))

rotation_mat(dir, up) == RotationFrom(dir, normalize(cross(up, dir)))

\* ------------------------------------------------------------ Color
Color(r, g, b, a) == [r |-> r, g |-> g, b |-> b, a |-> a]

WHITE == Color(255, 255, 255, 255)

BLACK == Color(0, 0, 0, 0)

\* f64::clamp(min, max): NaN stays NaN.
Clamp(p, min, max) == IF Lt(p, min) THEN min ELSE IF Gt(p, max) THEN max ELSE p

\* `as u8` on a value in [0, 255] or NaN: NaN casts to 0, the fraction is cut off.
AsU8(product) == IF IsNaN(product) THEN 0 ELSE product.n \div product.d

clamped_mul(u, f) == AsU8(Clamp(Mul(F(u), f), F(0), F(255)))

\* Mutant: the sum wraps around in u8.
clamped_add_Wrapping(u, v) == (u + v) % 256

\* The sum is taken in u16 and clamped to the u8 range.
clamped_add(u, v) == IF u + v < 0 THEN 0 ELSE IF u + v > 255 THEN 255 ELSE u + v

ColorAdd(c1, c2) ==
    Color(clamped_add(c1.r, c2.r), clamped_add(c1.g, c2.g),
          clamped_add(c1.b, c2.b), clamped_add(c1.a, c2.a))

ColorMul(c, f) ==
    Color(clamped_mul(c.r, f), clamped_mul(c.g, f),
          clamped_mul(c.b, f), clamped_mul(c.a, f))

\* impl Mul<Color> for f64: f * c.
MulColor(f, c) ==
    Color(clamped_mul(c.r, f), clamped_mul(c.g, f),
          clamped_mul(c.b, f), clamped_mul(c.a, f))

as_u8_slice(c) == <<c.r, c.g, c.b, c.a>>

\* ------------------------------------------------------------ scene data
Matte == [kind |-> "Matte", s |-> 0]

Specular(s) == [kind |-> "Specular", s |-> s]

Sphere(radius, center, color, specularity, reflectiveness) ==
    [radius |-> radius, center |-> center, color |-> color,
     specularity |-> specularity, reflectiveness |-> reflectiveness]

Surface(w, h) == [w |-> w, h |-> h]

AmbientLight(intensity) == [kind |-> "Ambient", intensity |-> intensity, v |-> ZERO]

PointLight(intensity, position) == [kind |-> "Point", intensity |-> intensity, v |-> position]

DirectionalLight(intensity, dir) == [kind |-> "Directional", intensity |-> intensity, v |-> dir]

\* ------------------------------------------------------------ raytracer.rs
canvas_to_viewport(scene, x, y) ==
    Vec3(Div(Mul(x, scene.viewport.w), scene.canvas.w),
         Div(Mul(y, scene.viewport.h), scene.canvas.h),
         scene.camera_dist)

\* The coefficients of a*t^2 + b*t + c = 0 for co = origin - center.
CoefA(dir) == dot(dir, dir)

CoefB(co, dir) == Mul(F(2), dot(co, dir))

CoefC(co, r) == Sub(dot(co, co), Mul(r, r))

Discriminant(a, b, c) == Sub(Mul(b, b), Mul(Mul(F(4), a), c))

\* Mutant: the roots divided by a instead of 2a.
Roots_OverA(a, b, root) == <<Div(Add(Neg(b), root), a), Div(Sub(Neg(b), root), a)>>

\* The roots (t1, t2) for a discriminant that is not negative, root = sqrt(discriminant).
Roots(a, b, root) ==
    <<Div(Add(Neg(b), root), Mul(F(2), a)), Div(Sub(Neg(b), root), Mul(F(2), a))>>

\* Mutant: the sentinel also for a discriminant of zero.
RootsOrMiss_ZeroToo(a, b, discriminant) ==
    IF Le(discriminant, F(0))
    THEN <<INFINITY, INFINITY>>
    ELSE Roots(a, b, Sqrt(discriminant))

\* The return value once the discriminant is known.
RootsOrMiss(a, b, discriminant) ==
    IF Lt(discriminant, F(0))
    THEN <<INFINITY, INFINITY>>
    ELSE Roots(a, b, Sqrt(discriminant))

IntersectCoef(a, b, c) == RootsOrMiss(a, b, Discriminant(a, b, c))

IntersectCo(co, dir, r) == IntersectCoef(CoefA(dir), CoefB(co, dir), CoefC(co, r))

\* The pair (t1, t2) of ray parameters at which origin + dir*t meets the sphere.
intersect_ray_sphere(origin, dir, sphere) ==
    IntersectCo(VSub(origin, sphere.center), dir, sphere.radius)

\* Option<(f64, &Sphere)>: s is the sphere's index in scene.spheres.
None == [some |-> FALSE, t |-> F(0), s |-> 0]

Some(t, s) == [some |-> TRUE, t |-> t, s |-> s]

\* Mutant: only the nearer root is tested against the range.
InRange_NearOnly(ts, t_min, t_max) ==
    /\ Ge(Min(ts[1], ts[2]), t_min) /\ Le(Min(ts[1], ts[2]), t_max)

\* The first filter of the closest_intersection pipeline, on the root pair.
InRange(ts, t_min, t_max) ==
    /\ Ge(ts[1], t_min) /\ Le(ts[1], t_max)
    /\ Ge(ts[2], t_min) /\ Le(ts[2], t_max)

\* One sphere through the pipeline: the filter on the root pair ts, the map
\* to the smaller root, the filter on +infinity, and min_by's step, which
\* replaces best only by an element that compares Less.
Candidate(best, ts, i, t_min, t_max) ==
    IF /\ InRange(ts, t_min, t_max)
       /\ Lt(Min(ts[1], ts[2]), INFINITY)
       /\ (~best.some \/ TotalLt(Min(ts[1], ts[2]), best.t))
    THEN Some(Min(ts[1], ts[2]), i)
    ELSE best

\* The pipeline run over spheres i..Len.
RECURSIVE ClosestFrom(_, _, _, _, _, _, _)
ClosestFrom(scene, origin, dir, t_min, t_max, i, best) ==
    IF i > Len(scene.spheres) THEN best
    ELSE ClosestFrom(scene, origin, dir, t_min, t_max, i + 1,
                     Candidate(best, intersect_ray_sphere(origin, dir, scene.spheres[i]),
                               i, t_min, t_max))

closest_intersection(scene, origin, dir, t_min, t_max) ==
    ClosestFrom(scene, origin, dir, t_min, t_max, 1, None)

reflect_ray(ray, normal) ==
    VSub(VMul(SMul(F(2), normal), dot(normal, ray)), ray)

\* The bias 0.001 of the shadow and reflection rays.
EPSILON == Q(1, 1000)

Diffuse(n_dot_l, normal, light_dir) ==
    IF Gt(n_dot_l, F(0))
    THEN Div(n_dot_l, Mul(length(normal), length(light_dir)))
    ELSE F(0)

SpecularOf(intensity, r_dot_v, reflect_dir, point_to_camera, s) ==
    IF Gt(r_dot_v, F(0))
    THEN Mul(intensity,
             Powf(Div(r_dot_v, Mul(length(reflect_dir), length(point_to_camera))), s))
    ELSE F(0)

SpecularTerm(specularity, intensity, reflect_dir, point_to_camera) ==
    IF specularity.kind = "Specular"
    THEN SpecularOf(intensity, dot(reflect_dir, point_to_camera), reflect_dir,
                    point_to_camera, specularity.s)
    ELSE F(0)

\* Mutant: no shadow test.
calculate_intensity_NoShadow(scene, point, normal, point_to_camera, specularity, intensity, light_dir, t_max) ==
    Add(Diffuse(dot(normal, light_dir), normal, light_dir),
        SpecularTerm(specularity, intensity, reflect_ray(light_dir, normal),
                     point_to_camera))

\* The closure calculate_intensity of compute_lighting.
calculate_intensity(scene, point, normal, point_to_camera, specularity, intensity, light_dir, t_max) ==
    IF closest_intersection(scene, point, light_dir, EPSILON, t_max).some
    THEN F(0)
    ELSE Add(Diffuse(dot(normal, light_dir), normal, light_dir),
             SpecularTerm(specularity, intensity, reflect_ray(light_dir, normal),
                          point_to_camera))

\* The arguments the match on the light passes to calculate_intensity.
LightDir(light, point) == IF light.kind = "Point" THEN VSub(light.v, point) ELSE light.v

LightTMax(light) == IF light.kind = "Point" THEN F(1) ELSE INFINITY

\* One light's term of the sum.
LightTerm(scene, point, normal, point_to_camera, specularity, light) ==
    IF light.kind = "Ambient"
    THEN light.intensity
    ELSE calculate_intensity(scene, point, normal, point_to_camera, specularity,
                             light.intensity, LightDir(light, point), LightTMax(light))

\* fold(0.0, Add::add) over lights 1..n, left to right.
RECURSIVE LightingUpTo(_, _, _, _, _, _)
LightingUpTo(scene, point, normal, point_to_camera, specularity, n) ==
    IF n = 0 THEN F(0)
    ELSE Add(LightingUpTo(scene, point, normal, point_to_camera, specularity, n - 1),
             LightTerm(scene, point, normal, point_to_camera, specularity,
                       scene.lights[n]))

compute_lighting(scene, point, normal, point_to_camera, specularity) ==
    LightingUpTo(scene, point, normal, point_to_camera, specularity, Len(scene.lights))

\* The locals of trace_ray on a hit.
HitPoint(origin, dir, t) == VAdd(origin, SMul(t, dir))

HitNormal(point, sphere) == normalize(VSub(point, sphere.center))

LocalColor(scene, sphere, point, normal, dir) ==
    ColorMul(sphere.color,
             compute_lighting(scene, point, normal, VNeg(dir), sphere.specularity))

\* Mutant: the test without `depth <= 0`.
StopsReflecting_NoDepthTest(depth, sphere) == Le(sphere.reflectiveness, F(0))

\* The test `depth <= 0 || sphere.reflectiveness <= 0.0`.
StopsReflecting(depth, sphere) == depth <= 0 \/ Le(sphere.reflectiveness, F(0))

\* Mutant: the recursive call keeps the depth.
DepthMinusOne_Same(depth) == depth

\* depth - 1 on a u8 (wrapping).
DepthMinusOne(depth) == (depth - 1) % 256

\* Mutant: the two weights swapped.
Blend_Swapped(local_color, reflected_color, reflectiveness) ==
    ColorAdd(ColorMul(local_color, reflectiveness),
             ColorMul(reflected_color, Sub(F(1), reflectiveness)))

\* local_color * (1.0 - reflectiveness) + reflected_color * reflectiveness
Blend(local_color, reflected_color, reflectiveness) ==
    ColorAdd(ColorMul(local_color, Sub(F(1), reflectiveness)),
             ColorMul(reflected_color, reflectiveness))

\* trace_ray as the function it is: the colour of the ray origin + dir*t.
RECURSIVE trace_ray(_, _, _, _, _, _)
TraceBlend(scene, sphere, dir, depth, point, normal, local_color) ==
    IF StopsReflecting(depth, sphere)
    THEN local_color
    ELSE Blend(local_color,
               trace_ray(scene, point, reflect_ray(VNeg(dir), normal), EPSILON, INFINITY,
                         DepthMinusOne(depth)),
               sphere.reflectiveness)

TraceWith(scene, sphere, dir, depth, point, normal) ==
    TraceBlend(scene, sphere, dir, depth, point, normal,
               LocalColor(scene, sphere, point, normal, dir))

TraceAt(scene, sphere, dir, depth, point) ==
    TraceWith(scene, sphere, dir, depth, point, HitNormal(point, sphere))

TraceHit(scene, origin, dir, depth, h) ==
    IF h.some
    THEN TraceAt(scene, scene.spheres[h.s], dir, depth, HitPoint(origin, dir, h.t))
    ELSE scene.bg_color

trace_ray(scene, origin, dir, t_min, t_max, depth) ==
    TraceHit(scene, origin, dir, depth,
             closest_intersection(scene, origin, dir, t_min, t_max))

\* ------------------------------------------------------------ main.rs
\* The frame is WIDTH x HEIGHT cells; the model renders a small frame.
WIDTH == 4

HEIGHT == 4

\* The depth Scene::draw passes to trace_ray.
DRAW_DEPTH == 3

\* Keys move the camera in steps of CAMERA_MOV_STEP = 0.5.
CAMERA_MOV_STEP == Q(1, 2)

Camera(position) == [position |-> position, y_rot |-> F(0), x_rot |-> F(0)]

\* The Scene literal of run(): canvas, viewport and camera_dist as there, the
\* spheres, the background and the lights drawn from the model's scenes.
Scene(spheres, bg_color, lights) ==
    [spheres |-> spheres, bg_color |-> bg_color,
     canvas |-> Surface(F(WIDTH), F(HEIGHT)),
     viewport |-> Surface(F(2), Div(Mul(F(2), F(HEIGHT)), F(WIDTH))),
     camera_dist |-> F(1), lights |-> lights]

\* The lights of run().
MainLights ==
    <<AmbientLight(Q(1, 5)), PointLight(Q(3, 5), V(2, 1, 0)),
      DirectionalLight(Q(1, 5), V(1, 4, 4))>>

\* The canvas point (cx, cy) of cell j.
CanvasX(j) == F((j % WIDTH) - (WIDTH \div 2))

\* Mutant: the rows counted upwards.
CanvasY_Flipped(j) == F((j \div WIDTH) - (HEIGHT \div 2))

CanvasY(j) == F((HEIGHT \div 2) - (j \div WIDTH))

\* ------------------------------------------------------------ state
VARIABLES
    scene,    \* the Scene, immutable during a render
    camera,   \* the Camera
    frame,    \* the pixel buffer: a sequence of WIDTH*HEIGHT 4-byte cells
    i,        \* index of the cell Scene::draw is at
    pc,       \* "draw": at the head of the loop; "trace": inside trace_ray;
              \* "write": trace_ray has returned; "done": draw has returned;
              \* "probe" / "probed": a single function is applied to drawn inputs
    stack,    \* the trace_ray activations, the innermost last
    ret,      \* the value the last trace_ray activation returned
    written,  \* history: per write, the cell, the trace_ray call and its colour
    rootcall, \* history: the arguments of the current cell's trace_ray call
    probe     \* the inputs and the result of a single function application

vars == <<scene, camera, frame, i, pc, stack, ret, written, rootcall, probe>>

\* The arguments of a trace_ray call.
Call(origin, dir, t_min, t_max, depth) ==
    [origin |-> origin, dir |-> dir, t_min |-> t_min, t_max |-> t_max, depth |-> depth]

NoCall == Call(ZERO, ZERO, F(0), F(0), 0)

\* A returned value: the colour, and as history the call it answers, the
\* branch taken (kind), the hit, local_color and reflected_color.
NoRet ==
    [has |-> FALSE, color |-> BLACK, kind |-> "none", call |-> NoCall, hit |-> None,
     local |-> BLACK, reflected |-> BLACK]

NoProbe == [op |-> "none"]

\* A trace_ray activation: its arguments, and its locals once it has hit.
\* pc is "call" at entry and "reflect" while its recursive call runs; calls
\* counts the recursive calls it has made.
Activation(call) ==
    [call |-> call, pc |-> "call", hit |-> None, point |-> ZERO, normal |-> ZERO,
     local_color |-> BLACK, calls |-> 0]

Top == stack[Len(stack)]

\* ------------------------------------------------------------ Scene::draw
\* One loop iteration up to the call of trace_ray.
DrawCall(call) ==
    /\ stack' = <<Activation(call)>>
    /\ rootcall' = call
    /\ pc' = "trace"
    /\ ret' = NoRet
    /\ UNCHANGED <<scene, camera, frame, i, written, probe>>

DrawPixel ==
    /\ pc = "draw" /\ i < Len(frame)
    /\ DrawCall(Call(camera.position,
                     canvas_to_viewport(scene, CanvasX(i), CanvasY(i)),
                     F(1), INFINITY, DRAW_DEPTH))

\* pixel.copy_from_slice(&color.as_u8_slice()), and the loop's step.
DrawWrite ==
    /\ pc = "write" /\ ret.has
    /\ frame' = [frame EXCEPT ![i + 1] = as_u8_slice(ret.color)]
    /\ written' = Append(written, [cell |-> i, call |-> rootcall, color |-> ret.color])
    /\ i' = i + 1
    /\ pc' = "draw"
    /\ UNCHANGED <<scene, camera, stack, ret, rootcall, probe>>

\* The loop is over: draw returns.
DrawReturn ==
    /\ pc = "draw" /\ i >= Len(frame)
    /\ pc' = "done"
    /\ UNCHANGED <<scene, camera, frame, i, stack, ret, written, rootcall, probe>>

\* ------------------------------------------------------------ trace_ray
\* The innermost activation returns color to its caller.
Return(color, kind, call, h, local, reflected) ==
    /\ stack' = SubSeq(stack, 1, Len(stack) - 1)
    /\ ret' = [has |-> TRUE, color |-> color, kind |-> kind, call |-> call,
               hit |-> h, local |-> local, reflected |-> reflected]
    /\ pc' = IF Len(stack) = 1 THEN "write" ELSE "trace"
    /\ UNCHANGED <<scene, camera, frame, i, written, rootcall, probe>>

\* closest_intersection for the activation's ray.
HitOf(call) == closest_intersection(scene, call.origin, call.dir, call.t_min, call.t_max)

\* Mutant: a miss returns Color::BLACK.
MissOn_Black(call, h) ==
    /\ ~h.some
    /\ Return(BLACK, "bg", call, h, BLACK, BLACK)

\* No intersection: scene.bg_color.
MissOn(call, h) ==
    /\ ~h.some
    /\ Return(scene.bg_color, "bg", call, h, BLACK, BLACK)

TraceRayMiss ==
    /\ pc = "trace" /\ Top.pc = "call"
    /\ MissOn(Top.call, HitOf(Top.call))

\* A hit at depth 0 or on a sphere that does not reflect: local_color.
LocalReturn(call, h, local_color) ==
    Return(local_color, "local", call, h, local_color, BLACK)

LocalAt(call, h, sphere, point) ==
    LocalReturn(call, h,
                LocalColor(scene, sphere, point, HitNormal(point, sphere), call.dir))

LocalOn(call, h) ==
    /\ h.some
    /\ StopsReflecting(call.depth, scene.spheres[h.s])
    /\ LocalAt(call, h, scene.spheres[h.s], HitPoint(call.origin, call.dir, h.t))

TraceRayLocal ==
    /\ pc = "trace" /\ Top.pc = "call"
    /\ LocalOn(Top.call, HitOf(Top.call))

\* A hit on a reflecting sphere: the recursive call.
ReflectWith(call, h, sphere, point, normal) ==
    /\ stack' = Append([stack EXCEPT ![Len(stack)] =
                          [@ EXCEPT !.pc = "reflect", !.hit = h, !.point = point,
                                    !.normal = normal,
                                    !.local_color =
                                        LocalColor(scene, sphere, point, normal, call.dir),
                                    !.calls = @ + 1]],
                       Activation(Call(point, reflect_ray(VNeg(call.dir), normal),
                                       EPSILON, INFINITY, DepthMinusOne(call.depth))))
    /\ ret' = NoRet
    /\ UNCHANGED <<scene, camera, frame, i, pc, written, rootcall, probe>>

ReflectAt(call, h, sphere, point) ==
    ReflectWith(call, h, sphere, point, HitNormal(point, sphere))

ReflectOn(call, h) ==
    /\ h.some
    /\ ~StopsReflecting(call.depth, scene.spheres[h.s])
    /\ ReflectAt(call, h, scene.spheres[h.s], HitPoint(call.origin, call.dir, h.t))

TraceRayReflect ==
    /\ pc = "trace" /\ Top.pc = "call"
    /\ ReflectOn(Top.call, HitOf(Top.call))

\* The recursive call has returned: the blend.
TraceRayBlend ==
    /\ pc = "trace" /\ Top.pc = "reflect" /\ ret.has
    /\ Return(Blend(Top.local_color, ret.color, scene.spheres[Top.hit.s].reflectiveness),
              "blend", Top.call, Top.hit, Top.local_color, ret.color)

\* ------------------------------------------------------------ the render
\* The scenes rendered: no sphere; the unit sphere under one ambient light;
\* two mirrors facing each other across the camera; partly reflecting
\* spheres of run()'s colours under run()'s lights.
Scenes ==
    { Scene(<<>>, WHITE, MainLights),
      Scene(<<Sphere(F(1), V(0, 0, 4), Color(178, 13, 48, 255), Matte, F(0))>>,
            BLACK, <<AmbientLight(F(1))>>),
      Scene(<<Sphere(F(1), V(0, 0, 4), Color(255, 255, 255, 255), Matte, F(1)),
              Sphere(F(1), V(0, 0, -4), Color(63, 132, 229, 255), Specular(2), F(1))>>,
            WHITE, <<AmbientLight(Q(1, 2)), PointLight(Q(1, 2), V(0, 0, 0))>>),
      Scene(<<Sphere(F(2), V(0, 0, 3), Color(63, 132, 229, 255), Specular(2), Q(1, 2)),
              Sphere(F(1), V(0, 0, -4), Color(193, 120, 23, 255), Matte, Q(1, 2))>>,
            WHITE, MainLights),
      Scene(<<Sphere(F(1), V(0, -1, 3), Color(178, 13, 48, 255), Specular(1), F(0)),
              Sphere(F(1), V(2, 0, 4), Color(63, 132, 229, 255), Specular(2), Q(1, 2)),
              Sphere(F(1), V(-2, 0, 4), Color(63, 120, 76, 255), Matte, F(1))>>,
            WHITE, MainLights) }

\* Camera positions the keys reach from Vec3::ZERO.
Cameras ==
    { Camera(ZERO),
      Camera(Vec3(F(0), F(0), CAMERA_MOV_STEP)),
      Camera(Vec3(Neg(CAMERA_MOV_STEP), F(0), F(0))) }

Init ==
    /\ scene \in Scenes
    /\ camera \in Cameras
    /\ frame = [j \in 1..(WIDTH * HEIGHT) |-> <<0, 0, 0, 0>>]
    /\ i = 0
    /\ pc = "draw"
    /\ stack = <<>>
    /\ ret = NoRet
    /\ written = <<>>
    /\ rootcall = NoCall
    /\ probe = NoProbe

Next ==
    \/ DrawPixel
    \/ DrawWrite
    \/ DrawReturn
    \/ TraceRayMiss
    \/ TraceRayLocal
    \/ TraceRayReflect
    \/ TraceRayBlend

Spec == Init /\ [][Next]_vars
\* ------------------------------------------------------------ claims on the render
\* local_color as trace_ray computes it for a call that hits.
LocalColorFor(call) ==
    LET h      == HitOf(call)
        sphere == scene.spheres[h.s]
        point  == HitPoint(call.origin, call.dir, h.t)
    IN  LocalColor(scene, sphere, point, HitNormal(point, sphere), call.dir)

\* The recursive call trace_ray makes for a call that hits.
ReflectedCallFor(call) ==
    LET h      == HitOf(call)
        sphere == scene.spheres[h.s]
        point  == HitPoint(call.origin, call.dir, h.t)
    IN  Call(point, reflect_ray(VNeg(call.dir), HitNormal(point, sphere)),
             Q(1, 1000), INFINITY, call.depth - 1)

\* C1: trace_ray returns exactly scene.bg_color whenever closest_intersection
\* returns None for its ray; in a scene without spheres every call returns
\* scene.bg_color and every cell written holds it.
C1_MissReturnsBackground ==
    /\ (ret.has /\ ~HitOf(ret.call).some) => ret.color = scene.bg_color
    /\ (scene.spheres = <<>>) =>
          /\ ret.has => ret.color = scene.bg_color
          /\ \A j \in 1..Len(written) : frame[j] = as_u8_slice(scene.bg_color)

\* A scene without spheres has been rendered to the last cell.
C1_Witness ==
    /\ pc = "done" /\ scene.spheres = <<>>
    /\ Len(written) = WIDTH * HEIGHT
    /\ ret.has /\ ret.color = scene.bg_color

\* C3: a trace_ray call with depth = 0 that hits a sphere returns local_color
\* = sphere.color * compute_lighting(...) whatever the reflectiveness, and an
\* activation of depth 0 makes no recursive call.
C3_DepthZeroReturnsLocal ==
    /\ (ret.has /\ ret.call.depth = 0 /\ HitOf(ret.call).some) =>
          /\ ret.kind = "local"
          /\ ret.color = LocalColorFor(ret.call)
    /\ \A j \in 1..Len(stack) :
          stack[j].call.depth = 0 =>
             /\ j = Len(stack)
             /\ stack[j].pc = "call"
             /\ stack[j].calls = 0

\* A depth-0 call has hit a perfect mirror and returned.
C3_Witness ==
    /\ ret.has /\ ret.call.depth = 0 /\ ret.kind = "local" /\ ret.hit.some
    /\ scene.spheres[ret.hit.s].reflectiveness = F(1)

\* One channel of local*(1 - k) + reflected*k for 0 <= k <= 1: each product
\* loses its fraction, the sum saturates at 255.
ChannelBlend(l, r, k) ==
    LET sum == ((l * (k.d - k.n)) \div k.d) + ((r * k.n) \div k.d)
    IN  IF sum > 255 THEN 255 ELSE sum

\* C6 (amended): on a hit with depth > 0 and reflectiveness k > 0 the call
\* recurses from the hit point along reflect(-dir, normal) with t_min = 0.001,
\* t_max = +infinity and depth - 1, and returns local_color*(1 - k) +
\* reflected_color*k in Color arithmetic: each channel is
\* min(255, floor(local*(1 - k)) + floor(reflected*k)).
C6_ReflectionBlend ==
    /\ \A j \in 1..(Len(stack) - 1) :
          /\ stack[j].pc = "reflect"
          /\ stack[j + 1].call = ReflectedCallFor(stack[j].call)
    /\ (ret.has /\ ret.kind = "blend") =>
          LET k    == scene.spheres[HitOf(ret.call).s].reflectiveness
              next == ReflectedCallFor(ret.call)
          IN  /\ ret.call.depth > 0 /\ Gt(k, F(0))
              /\ ret.local = LocalColorFor(ret.call)
              /\ ret.reflected = trace_ray(scene, next.origin, next.dir, next.t_min,
                                           next.t_max, next.depth)
              /\ ret.color.r = ChannelBlend(ret.local.r, ret.reflected.r, k)
              /\ ret.color.g = ChannelBlend(ret.local.g, ret.reflected.g, k)
              /\ ret.color.b = ChannelBlend(ret.local.b, ret.reflected.b, k)
              /\ ret.color.a = ChannelBlend(ret.local.a, ret.reflected.a, k)
    /\ (ret.has /\ ret.call.depth > 0 /\ HitOf(ret.call).some
          /\ Gt(scene.spheres[HitOf(ret.call).s].reflectiveness, F(0))) =>
          ret.kind = "blend"

\* A blend with k = 0.5 of two colours that differ, one channel odd.
C6_Witness ==
    /\ ret.has /\ ret.kind = "blend"
    /\ scene.spheres[ret.hit.s].reflectiveness = Q(1, 2)
    /\ ret.local # ret.reflected
    /\ ret.local.r % 2 = 1

\* C6 as stated: with k = 0.5 every channel is exactly 0.5*local + 0.5*reflected.
C6_ExactHalfBlend ==
    (ret.has /\ ret.kind = "blend" /\ scene.spheres[ret.hit.s].reflectiveness = Q(1, 2)) =>
        /\ 2 * ret.color.r = ret.local.r + ret.reflected.r
        /\ 2 * ret.color.g = ret.local.g + ret.reflected.g
        /\ 2 * ret.color.b = ret.local.b + ret.reflected.b
        /\ 2 * ret.color.a = ret.local.a + ret.reflected.a

\* The nesting of the activations: the j-th has depth n - (j - 1), all but
\* the innermost wait for their one recursive call.
C9_Nesting ==
    /\ Len(stack) <= rootcall.depth + 1
    /\ \A j \in 1..Len(stack) :
          /\ stack[j].call.depth = rootcall.depth - (j - 1)
          /\ stack[j].call.depth >= 0
          /\ stack[j].calls = (IF stack[j].pc = "reflect" THEN 1 ELSE 0)
          /\ stack[j].pc = "reflect" => stack[j].call.depth > 0
          /\ j < Len(stack) => stack[j].pc = "reflect"

\* A bound on the steps the running trace_ray calls still take.
TraceRank ==
    IF stack = <<>> THEN 0
    ELSE IF Top.pc = "call" THEN 2 * Top.call.depth + Len(stack)
    ELSE Len(stack)

\* C9: every trace_ray call of depth n terminates: a recursive call is made
\* only at depth > 0 and with depth exactly n - 1, an activation makes at
\* most one, at most n + 1 activations are nested, and every step of
\* trace_ray lowers a rank that starts at 2n + 1.
C9_TraceRayTerminates ==
    /\ [](C9_Nesting /\ TraceRank >= 0 /\ TraceRank <= 2 * DRAW_DEPTH + 1)
    /\ [][pc = "trace" => TraceRank' < TraceRank]_vars

\* n + 1 activations are nested between mirrors of reflectiveness 1.
C9_Witness ==
    /\ Len(stack) = DRAW_DEPTH + 1
    /\ \A j \in 1..Len(scene.spheres) : scene.spheres[j].reflectiveness = F(1)

\* What one call of draw has done so far.
C10_Frame ==
    /\ Len(frame) = WIDTH * HEIGHT
    /\ Len(written) = i
    /\ \A j \in 1..Len(written) :
          /\ written[j].cell = j - 1
          /\ written[j].call =
                Call(camera.position,
                     canvas_to_viewport(scene, F(((j - 1) % WIDTH) - (WIDTH \div 2)),
                                        F((HEIGHT \div 2) - ((j - 1) \div WIDTH))),
                     F(1), INFINITY, 3)
          /\ frame[j] = <<written[j].color.r, written[j].color.g,
                          written[j].color.b, written[j].color.a>>
    /\ \A j \in (i + 1)..Len(frame) : frame[j] = <<0, 0, 0, 0>>
    /\ written # <<>> =>
          LET w == written[Len(written)]
          IN  w.color = trace_ray(scene, w.call.origin, w.call.dir, w.call.t_min,
                                  w.call.t_max, w.call.depth)
    /\ pc = "done" => i = WIDTH * HEIGHT

\* C10: one call of Scene::draw writes every cell exactly once, in increasing
\* cell index, the bytes in the order [r, g, b, a], the colour of cell i
\* being trace_ray for the primary ray through ((i mod WIDTH) - WIDTH/2,
\* HEIGHT/2 - (i div WIDTH)); the scene and the camera do not change.
C10_DrawWritesEachCellOnce ==
    /\ []C10_Frame
    /\ [][scene' = scene /\ camera' = camera]_vars

\* draw has returned from a frame that shows a sphere.
C10_Witness ==
    /\ pc = "done" /\ Len(written) = WIDTH * HEIGHT
    /\ \E j \in 1..Len(frame) : frame[j] # as_u8_slice(scene.bg_color)

\* ------------------------------------------------------------ single functions
\* Bounds of the inputs the single functions are applied to.
CrossMax == 1

IntersectMax == 2

MaxSpheres == 2

MaxLights == 3

\* The render is idle while a single function is applied.
ProbeIdle ==
    /\ camera = Camera(ZERO)
    /\ frame = [j \in 1..(WIDTH * HEIGHT) |-> <<0, 0, 0, 0>>]
    /\ i = 0
    /\ pc = "probe"
    /\ stack = <<>>
    /\ ret = NoRet
    /\ written = <<>>
    /\ rootcall = NoCall

\* The function's result is recorded.
Probed(out) ==
    /\ pc' = "probed"
    /\ probe' = [probe EXCEPT !.out = out]
    /\ UNCHANGED <<scene, camera, frame, i, stack, ret, written, rootcall>>

\* Vectors of integer components, as triples, and their exact arithmetic.
Triples(lo, hi) == (lo..hi) \X (lo..hi) \X (lo..hi)

V3(u) == V(u[1], u[2], u[3])

IDot(u, v) == u[1] * v[1] + u[2] * v[2] + u[3] * v[3]

ISub(u, v) == <<u[1] - v[1], u[2] - v[2], u[3] - v[3]>>

ICross(u, v) ==
    <<u[2] * v[3] - u[3] * v[2], u[3] * v[1] - u[1] * v[3], u[1] * v[2] - u[2] * v[1]>>

Parallel(u, v) == ICross(u, v) = <<0, 0, 0>>

\* ---- Vec3::cross
InitCross ==
    /\ ProbeIdle
    /\ scene = Scene(<<>>, WHITE, <<>>)
    /\ probe \in [op : {"cross"}, a : Triples(-CrossMax, CrossMax),
                  b : Triples(-CrossMax, CrossMax), out : {ZERO}]

ApplyCross ==
    /\ pc = "probe" /\ probe.op = "cross"
    /\ Probed(cross(V3(probe.a), V3(probe.b)))

SpecCross == InitCross /\ [][ApplyCross]_vars

\* C4: for all vectors a and b of bounded integer components that are not
\* parallel, dot(cross(a, b), a) = 0 and dot(cross(a, b), b) = 0.
C4_CrossOrthogonal ==
    (pc = "probed" /\ probe.op = "cross" /\ ~Parallel(probe.a, probe.b)) =>
        /\ dot(probe.out, V3(probe.a)) = F(0)
        /\ dot(probe.out, V3(probe.b)) = F(0)

\* ---- intersect_ray_sphere
IntersectOrigins == {<<0, 0, 0>>, <<0, 0, -1>>}

IntersectCentres == (0..IntersectMax) \X (0..IntersectMax) \X (0..(IntersectMax + 2))

InitIntersect ==
    /\ ProbeIdle
    /\ scene = Scene(<<>>, WHITE, <<>>)
    /\ probe \in [op : {"intersect"}, origin : IntersectOrigins,
                  dir : Triples(-IntersectMax, IntersectMax),
                  center : IntersectCentres, radius : 1..IntersectMax,
                  out : {<<F(0), F(0)>>}]

ApplyIntersect ==
    /\ pc = "probe" /\ probe.op = "intersect"
    /\ Probed(intersect_ray_sphere(V3(probe.origin), V3(probe.dir),
                                   Sphere(F(probe.radius), V3(probe.center), WHITE,
                                          Matte, F(0))))

SpecIntersect == InitIntersect /\ [][ApplyIntersect]_vars

\* The quadratic's coefficients and discriminant of the applied inputs, exact.
QuadA == IDot(probe.dir, probe.dir)

QuadB == 2 * IDot(ISub(probe.origin, probe.center), probe.dir)

QuadC ==
    IDot(ISub(probe.origin, probe.center), ISub(probe.origin, probe.center))
        - probe.radius * probe.radius

QuadDiscriminant == QuadB * QuadB - 4 * QuadA * QuadC

\* C7 (amended): intersect_ray_sphere returns the sentinel pair (+infinity,
\* +infinity), which closest_intersection rejects, exactly when the
\* discriminant is strictly negative; for a discriminant of zero and a
\* nonzero direction it returns the double root -b/(2a) twice, which
\* closest_intersection accepts when it is in range; its roots are finite
\* for every nonzero direction with discriminant >= 0.
C7_SentinelOnlyBelowZero ==
    (pc = "probed" /\ probe.op = "intersect") =>
        /\ QuadDiscriminant < 0 =>
              /\ probe.out = <<INFINITY, INFINITY>>
              /\ Candidate(None, probe.out, 1, F(0), INFINITY) = None
        /\ QuadDiscriminant >= 0 => probe.out # <<INFINITY, INFINITY>>
        /\ (QuadDiscriminant >= 0 /\ QuadA > 0) =>
              IsFinite(probe.out[1]) /\ IsFinite(probe.out[2])
        /\ (QuadDiscriminant = 0 /\ QuadA > 0) =>
              /\ probe.out = <<Q(-QuadB, 2 * QuadA), Q(-QuadB, 2 * QuadA)>>
              /\ QuadB <= 0 =>
                    Candidate(None, probe.out, 1, F(0), INFINITY)
                        = Some(Q(-QuadB, 2 * QuadA), 1)
        /\ QuadA = 0 => IsNaN(probe.out[1]) /\ IsNaN(probe.out[2])

\* A tangent ray: discriminant zero, one finite double root ahead of the origin.
C7_Witness ==
    /\ pc = "probed" /\ probe.op = "intersect"
    /\ QuadDiscriminant = 0 /\ QuadA > 0 /\ QuadB < 0
    /\ IsFinite(probe.out[1]) /\ probe.out[1] = probe.out[2]

\* C7 as stated: the sentinel pair whenever the discriminant is zero or
\* negative, finite roots only for a strictly positive discriminant.
C7_SentinelUnlessPositive ==
    (pc = "probed" /\ probe.op = "intersect") =>
        /\ QuadDiscriminant <= 0 => probe.out = <<INFINITY, INFINITY>>
        /\ (IsFinite(probe.out[1]) \/ IsFinite(probe.out[2])) => QuadDiscriminant > 0

\* The ray points at the centre from outside the sphere, and both the
\* distance d to the centre and the length of dir are whole numbers.
AimedAtCentre ==
    /\ pc = "probed" /\ probe.op = "intersect"
    /\ Parallel(probe.dir, ISub(probe.center, probe.origin))
    /\ IDot(probe.dir, ISub(probe.center, probe.origin)) > 0
    /\ IsSquare(IDot(probe.dir, probe.dir))
    /\ IsSquare(IDot(ISub(probe.center, probe.origin), ISub(probe.center, probe.origin)))
    /\ IDot(ISub(probe.center, probe.origin), ISub(probe.center, probe.origin))
          > probe.radius * probe.radius

CentreDistance ==
    ISqrt(IDot(ISub(probe.center, probe.origin), ISub(probe.center, probe.origin)))

DirLength == ISqrt(IDot(probe.dir, probe.dir))

\* C8 (amended): for a ray from distance d > r pointing at the centre,
\* intersect_ray_sphere returns the ray parameters (d - r)/|dir| and
\* (d + r)/|dir|, which are d - r and d + r when dir has unit length.
C8_RootsScaleWithDirection ==
    AimedAtCentre =>
        /\ {probe.out[1], probe.out[2]} =
              {Q(CentreDistance - probe.radius, DirLength),
               Q(CentreDistance + probe.radius, DirLength)}
        /\ DirLength = 1 =>
              {probe.out[1], probe.out[2]} =
                  {F(CentreDistance - probe.radius), F(CentreDistance + probe.radius)}

\* A direction of length 3 pointing at a centre at distance 3.
C8_Witness ==
    /\ AimedAtCentre
    /\ DirLength = 3 /\ CentreDistance = 3 /\ probe.radius = 1
    /\ probe.out = <<Q(4, 3), Q(2, 3)>>

\* C8 as stated: the roots are d - r and d + r for every such direction.
C8_RootsAreDistances ==
    AimedAtCentre =>
        {probe.out[1], probe.out[2]} =
            {F(CentreDistance - probe.radius), F(CentreDistance + probe.radius)}

\* ---- closest_intersection
ProbeSphere(radius, center) == Sphere(radius, center, WHITE, Matte, F(0))

ClosestSpheres ==
    { ProbeSphere(F(1), V(0, 0, 4)),
      ProbeSphere(F(1), V(0, 0, 2)),
      ProbeSphere(F(2), V(0, 0, 1)),
      ProbeSphere(F(1), V(0, 0, -4)),
      ProbeSphere(F(1), V(1, 0, 3)) }

ClosestDirs == {V(0, 0, 1), V(0, 0, -1), V(0, 0, 2), V(0, 1, 0), V(0, 0, 0)}

SeqsUpTo(S, n) == UNION {[1..k -> S] : k \in 0..n}

InitClosest ==
    /\ ProbeIdle
    /\ scene \in {Scene(ss, WHITE, <<>>) : ss \in SeqsUpTo(ClosestSpheres, MaxSpheres)}
    /\ probe \in [op : {"closest"}, origin : {ZERO}, dir : ClosestDirs,
                  t_min : {F(0), EPSILON, F(1), F(4)},
                  t_max : {F(0), F(1), F(4), INFINITY}, out : {None}]

ApplyClosest ==
    /\ pc = "probe" /\ probe.op = "closest"
    /\ Probed(closest_intersection(scene, probe.origin, probe.dir, probe.t_min,
                                   probe.t_max))

SpecClosest == InitClosest /\ [][ApplyClosest]_vars

\* The reference: root pairs, ranges and candidates of the applied inputs.
RootsOf(j) == intersect_ray_sphere(probe.origin, probe.dir, scene.spheres[j])

SmallerRoot(j) == Min(RootsOf(j)[1], RootsOf(j)[2])

Within(t) == Le(probe.t_min, t) /\ Le(t, probe.t_max)

IsCandidate(j) ==
    /\ Within(RootsOf(j)[1]) /\ Within(RootsOf(j)[2])
    /\ IsFinite(SmallerRoot(j))

OnlyNearerInRange(j) ==
    /\ Within(SmallerRoot(j))
    /\ ~(Within(RootsOf(j)[1]) /\ Within(RootsOf(j)[2]))

\* C2: closest_intersection agrees with the reference: a sphere is a
\* candidate only if both of its roots lie in [t_min, t_max] and the smaller
\* is finite; the result is None when there is no candidate (so whenever
\* t_max < t_min, and for a sphere with only its nearer root in range), else
\* Some((t, s)) with t the smaller root of the candidate s, minimal over the
\* candidates, and t_min <= t <= t_max.
C2_ClosestAgreesWithReference ==
    (pc = "probed" /\ probe.op = "closest") =>
        LET cands == {j \in 1..Len(scene.spheres) : IsCandidate(j)}
        IN  /\ probe.out.some <=> cands # {}
            /\ ~probe.out.some => probe.out = None
            /\ Lt(probe.t_max, probe.t_min) => probe.out = None
            /\ probe.out.some =>
                  /\ probe.out.s \in cands
                  /\ probe.out.t = SmallerRoot(probe.out.s)
                  /\ \A j \in cands : Le(probe.out.t, SmallerRoot(j))
                  /\ \A j \in 1..Len(scene.spheres) :
                        OnlyNearerInRange(j) => probe.out.s # j
                  /\ Le(probe.t_min, probe.out.t) /\ Le(probe.out.t, probe.t_max)

\* Two spheres: the one in front is the result, the other has only its
\* nearer root in range and is rejected.
C2_Witness ==
    /\ pc = "probed" /\ probe.op = "closest"
    /\ Len(scene.spheres) = 2
    /\ probe.out.some
    /\ \E j \in 1..2 : OnlyNearerInRange(j) /\ IsFinite(RootsOf(j)[1])

\* ---- compute_lighting
LightingSpheres ==
    { <<>>,
      <<ProbeSphere(F(1), V(0, 0, 2))>>,
      <<ProbeSphere(F(1), V(0, 0, 4))>>,
      <<ProbeSphere(F(1), V(0, 2, 0))>>,
      <<ProbeSphere(F(1), V(0, 0, 2)), ProbeSphere(F(1), V(0, 2, 0))>> }

Lights ==
    { AmbientLight(Q(1, 5)), AmbientLight(Q(1, 2)),
      PointLight(Q(3, 5), V(0, 0, 4)), PointLight(Q(3, 5), V(0, 4, 0)),
      DirectionalLight(Q(1, 5), V(0, 0, 1)) }

InitLighting ==
    /\ ProbeIdle
    /\ scene \in {Scene(ss, WHITE, ls) : ss \in LightingSpheres, ls \in SeqsUpTo(Lights, MaxLights)}
    /\ probe \in [op : {"lighting"}, point : {ZERO, V(0, 0, 1)},
                  normal : {V(0, 0, 1), V(0, 1, 0)}, point_to_camera : {V(0, 0, 1)},
                  specularity : {Matte, Specular(2)}, out : {F(0)}]

ApplyLighting ==
    /\ pc = "probe" /\ probe.op = "lighting"
    /\ Probed(compute_lighting(scene, probe.point, probe.normal, probe.point_to_camera,
                               probe.specularity))

SpecLighting == InitLighting /\ [][ApplyLighting]_vars

\* A sphere lies between the shaded point and the point light: the shadow
\* ray point + t*(position - point) meets it at parameters inside [0.001, 1].
Occluded(light) ==
    /\ light.kind = "Point"
    /\ \E j \in 1..Len(scene.spheres) :
          LET ts == intersect_ray_sphere(probe.point, VSub(light.v, probe.point),
                                         scene.spheres[j])
          IN  /\ Le(Q(1, 1000), ts[1]) /\ Le(ts[1], F(1))
              /\ Le(Q(1, 1000), ts[2]) /\ Le(ts[2], F(1))

\* The sum of the ambient intensities of lights 1..n.
RECURSIVE AmbientSum(_)
AmbientSum(n) ==
    IF n = 0 THEN F(0)
    ELSE IF scene.lights[n].kind = "Ambient"
         THEN Add(AmbientSum(n - 1), scene.lights[n].intensity)
         ELSE AmbientSum(n - 1)

\* The scene without its occluded point lights.
WithoutOccluded ==
    [scene EXCEPT !.lights = SelectSeq(scene.lights, LAMBDA l : ~Occluded(l))]

\* C5: a point light with a sphere between it and the shaded point
\* contributes exactly 0 to compute_lighting, and every ambient light
\* exactly its intensity: the result is that of the scene without the
\* occluded point lights, and the sum of the ambient intensities when every
\* other light is an occluded point light.
C5_OccludedPointLightContributesZero ==
    (pc = "probed" /\ probe.op = "lighting") =>
        /\ \A j \in 1..Len(scene.lights) :
              /\ Occluded(scene.lights[j]) =>
                    LightTerm(scene, probe.point, probe.normal, probe.point_to_camera,
                              probe.specularity, scene.lights[j]) = F(0)
              /\ scene.lights[j].kind = "Ambient" =>
                    LightTerm(scene, probe.point, probe.normal, probe.point_to_camera,
                              probe.specularity, scene.lights[j])
                        = scene.lights[j].intensity
        /\ probe.out = compute_lighting(WithoutOccluded, probe.point, probe.normal,
                                        probe.point_to_camera, probe.specularity)
        /\ (\A j \in 1..Len(scene.lights) :
               scene.lights[j].kind = "Ambient" \/ Occluded(scene.lights[j])) =>
              probe.out = AmbientSum(Len(scene.lights))

\* An ambient light, an occluded point light and a point light that shines.
C5_Witness ==
    /\ pc = "probed" /\ probe.op = "lighting"
    /\ \E j \in 1..Len(scene.lights) : Occluded(scene.lights[j])
    /\ \E j \in 1..Len(scene.lights) : scene.lights[j].kind = "Ambient"
    /\ \E j \in 1..Len(scene.lights) :
          scene.lights[j].kind = "Point" /\ ~Occluded(scene.lights[j])
    /\ Gt(probe.out, AmbientSum(Len(scene.lights)))

\* ---- Color arithmetic
\* Factors are the multiples of 1/4 up to FactorMax/4 in size, and the
\* special values.
FactorMax == 6

ChannelLevels == {0, 1, 128, 255}

Colors ==
    {Color(r, g, b, a) : r \in ChannelLevels, g \in ChannelLevels,
                         b \in ChannelLevels, a \in ChannelLevels}

Factors == {Q(n, 4) : n \in (-FactorMax)..FactorMax} \cup {INFINITY, NEG_INFINITY, NaN}

InitColor ==
    /\ ProbeIdle
    /\ scene = Scene(<<>>, WHITE, <<>>)
    /\ probe \in [op : {"add"}, c1 : Colors, c2 : Colors, f : {F(1)},
                  out : {BLACK}, rev : {BLACK}]
            \cup [op : {"mul"}, c1 : Colors, c2 : {BLACK}, f : Factors,
                  out : {BLACK}, rev : {BLACK}]

\* c1 + c2.
ApplyColorAdd ==
    /\ pc = "probe" /\ probe.op = "add"
    /\ pc' = "probed"
    /\ probe' = [probe EXCEPT !.out = ColorAdd(probe.c1, probe.c2),
                              !.rev = ColorAdd(probe.c2, probe.c1)]
    /\ UNCHANGED <<scene, camera, frame, i, stack, ret, written, rootcall>>

\* c1 * f and f * c1.
ApplyColorMul ==
    /\ pc = "probe" /\ probe.op = "mul"
    /\ pc' = "probed"
    /\ probe' = [probe EXCEPT !.out = ColorMul(probe.c1, probe.f),
                              !.rev = MulColor(probe.f, probe.c1)]
    /\ UNCHANGED <<scene, camera, frame, i, stack, ret, written, rootcall>>

NextColor == ApplyColorAdd \/ ApplyColorMul

SpecColor == InitColor /\ [][NextColor]_vars

\* One channel of a sum: min(255, u + v).
SaturatingSum(u, v) == IF u + v > 255 THEN 255 ELSE u + v

\* One channel of a product with the factor f: ch*f clamped to [0, 255]
\* with its fraction cut off; a product that is NaN gives 0.
SaturatingProduct(ch, f) ==
    IF f.k = "nan" THEN 0
    ELSE IF f.k = "inf" THEN (IF ch = 0 THEN 0 ELSE 255)
    ELSE IF f.k = "ninf" THEN 0
    ELSE IF ch * f.n < 0 THEN 0
    ELSE IF ch * f.n > 255 * f.d THEN 255
    ELSE (ch * f.n) \div f.d

\* C11: Color arithmetic saturates and never wraps: every channel of
\* c1 + c2 is min(255, c1.ch + c2.ch); every channel of c * f is ch*f
\* clamped to [0, 255] (0 for negative f, 255 on overflow, the fraction cut
\* off); f * c = c * f, c * 1.0 = c, and c * 0.0 has all four channels 0.
C11_ColorArithmeticSaturates ==
    /\ (pc = "probed" /\ probe.op = "add") =>
          /\ probe.out = Color(SaturatingSum(probe.c1.r, probe.c2.r),
                               SaturatingSum(probe.c1.g, probe.c2.g),
                               SaturatingSum(probe.c1.b, probe.c2.b),
                               SaturatingSum(probe.c1.a, probe.c2.a))
          /\ probe.out.r >= probe.c1.r /\ probe.out.r >= probe.c2.r
          /\ probe.out.g >= probe.c1.g /\ probe.out.g >= probe.c2.g
          /\ probe.out.b >= probe.c1.b /\ probe.out.b >= probe.c2.b
          /\ probe.out.a >= probe.c1.a /\ probe.out.a >= probe.c2.a
    /\ (pc = "probed" /\ probe.op = "mul") =>
          /\ probe.out = Color(SaturatingProduct(probe.c1.r, probe.f),
                               SaturatingProduct(probe.c1.g, probe.f),
                               SaturatingProduct(probe.c1.b, probe.f),
                               SaturatingProduct(probe.c1.a, probe.f))
          /\ probe.rev = probe.out
          /\ probe.f = F(1) => probe.out = probe.c1
          /\ probe.f = F(0) => probe.out = Color(0, 0, 0, 0)
          /\ (IsFinite(probe.f) /\ Lt(probe.f, F(0))) => probe.out = Color(0, 0, 0, 0)

\* A product by 1.25: one channel loses a fraction, alpha saturates at 255.
C11_Witness ==
    /\ pc = "probed" /\ probe.op = "mul"
    /\ probe.f = Q(5, 4)
    /\ probe.c1.r = 1 /\ probe.out.r = 1
    /\ probe.c1.g = 128 /\ probe.out.g = 160
    /\ probe.c1.a = 255 /\ probe.out.a = 255

\* ---- Mat3x3::rotation_mat
RotationMax == 1

InitRotation ==
    /\ ProbeIdle
    /\ scene = Scene(<<>>, WHITE, <<>>)
    /\ probe \in [op : {"rotation"}, dir : Triples(-RotationMax, RotationMax),
                  up : Triples(-RotationMax, RotationMax) \ {<<0, 0, 0>>},
                  out : {IDENTITY}]

ApplyRotation ==
    /\ pc = "probe" /\ probe.op = "rotation"
    /\ Probed(rotation_mat(V3(probe.dir), V3(probe.up)))

SpecRotation == InitRotation /\ [][ApplyRotation]_vars

\* Some entry of the matrix is NaN.
HasNaN(m) ==
    \E col \in {m.col1, m.col2, m.col3} : IsNaN(col.x) \/ IsNaN(col.y) \/ IsNaN(col.z)

\* C12: rotation_mat(dir, up) returns Mat3x3::IDENTITY whenever dir and up
\* are parallel (nonzero multiples of one another), and so no matrix built
\* from a degenerate basis.
C12_ParallelGivesIdentity ==
    (/\ pc = "probed" /\ probe.op = "rotation"
     /\ probe.dir # <<0, 0, 0>> /\ probe.up # <<0, 0, 0>>
     /\ Parallel(probe.dir, probe.up)) =>
        /\ probe.out = IDENTITY
        /\ ~HasNaN(probe.out)
====
